---- MODULE Spec2Model ----
(***************************************************************************)
(* Model of werewolf_datapipe/step_1_one_click_process.py: speaker         *)
(* identification, run-length merging of consecutive same-speaker          *)
(* segments and correction of short segments, as process_video runs them.  *)
(*                                                                         *)
(* Conventions:                                                            *)
(*   - similarities and similarity thresholds are scaled by 100            *)
(*     (0.3 is 30, the cosine range [-1, 1] is [-100, 100]);               *)
(*   - a text is a sequence of tokens; the text of the i-th raw segment is *)
(*     either empty or the one-token text <<i>>, so that the order of a    *)
(*     concatenation is visible;                                           *)
(*   - minsec's "mm:ss" string is the pair <<mm, ss>>;                     *)
(*   - Python's None is the string None, "未知" is UNKNOWN, "法官" is JUDGE,  *)
(*     the seat value '无' is NO_SEQ.                                       *)
(***************************************************************************)
EXTENDS Integers, Sequences, FiniteSets, TLC

\* ---------------------------------------------------------------- bounds
\* most raw segments one run processes
MaxSegs == 3
\* most entries of the voiceprint library passed to one identify_speaker call
MaxLib == 3
\* most segments of a run whose timeline is assembled under SpecTimeline
MaxTimelineSegs == 2
\* most time marks of the configuration under SpecTimeline
MaxMarks == 2
\* most characters of a time marker
MaxTimeLen == 5

\* ------------------------------------------------------- program constants
DEFAULT_SIMILARITY_THRESHOLD == 30
DEFAULT_MIN_SPEAKER_DURATION == 3
\* best_similarity = -1 before the loop of identify_speaker
INIT_BEST_SIMILARITY == -100
\* parse_time_to_ms: frames per second
FPS == 30
None == "None"
UNKNOWN == "unknown"
JUDGE == "judge"
NO_SEQ == "none"

\* ------------------------------------------------------------ input domains
\* speaker names, in the order a library lists them
AllNames == <<JUDGE, "A", "B", "C", "D">>
\* one library entry's similarity to the segment embedding: <<v>>, or Fail when
\* it could not be computed (cosine raised, the entry is skipped)
Fail == <<>>
Sim(v) == <<v>>
SimVals == {-100, 25, 30, 42}
Thresholds == {-100, 30, 42}
\* durations of raw segments, in ms
Durations == {800, 5000}
\* values of min_speaker_duration (seconds; 0 switches the corrector off)
MinSpeakerDurations == {0, 3, 5, 3000}
\* what load_voiceprints finds at VOICEPRINT_PT
LoadOutcomes == {"missing", "unreadable", "empty", "ok"}
\* the libraries a readable file holds, as the names in iteration order
Libraries == {<<JUDGE, "A", "B">>, <<"A", "B">>, <<"C", "D">>}
\* start_ms of the configuration's time marks
MarkTimes == {0, 3000, 5000}
\* the characters of a time marker: digits, the colon and a letter
TimeChars == {"0", "1", "3", "5", ":", "x"}
\* the time markers given as JSON numbers
FrameCounts == {0, 150, 900}
\* analysis step: the label the section to analyse starts with, as its words
SECTION_START == <<"day1", "sheriff">>
\* analysis step: the labels of the time marks of the ASR log
AnalysisLabels == {<<"pre", "day1", "sheriff">>, <<"day1", "night">>}
\* analysis step: the start_ms of the time marks of the ASR log
AnalysisMarkTimes == {0, 800, 5000}
\* the labels of the time marks, by position in the configuration
MarkLabels == <<"mark1", "mark2", "mark3">>

VARIABLES
    pc,                  \* position in process_video
    voiceprints,         \* names of the (filtered) library, in iteration order
    speaker_seqs,        \* config['speaker_seqs']: name -> seat label
    similarity_threshold,
    min_speaker_duration,
    processed_segments,
    merged_segments,
    modified_segments,   \* the corrector's relabeled list, before its re-merge
    filtered_segments,
    segment_emb,         \* identify_speaker call: similarity per library entry
    id_voiceprints,      \* identify_speaker call: the library's names
    id_threshold,        \* identify_speaker call: threshold
    id_result,           \* identify_speaker call: returned value
    candidates,          \* config['candidates']: the sorted roster, judge included
    time_marks,          \* config['time_marks'], ascending by start_ms
    load_status,         \* what load_voiceprints found
    all_voiceprints,     \* names of the loaded library, in iteration order
    error,               \* the exception that ended the run, or None
    vad_segments,        \* `segments`: the raw segments looped over so far, each with
                         \* what the embedding and transcription services returned
    all_items,           \* the timeline written to the text output
    outputs,             \* the output files written
    raw_mark,            \* parse_config_file: one entry of the file's time_marks
    heap,                \* the segment dicts by object identity
    processed_refs,      \* processed_segments as the list of its dicts' identities
    merged_refs,         \* merged_segments, likewise
    filtered_refs,       \* filtered_segments, likewise
    start_mark,          \* analysis step: the anchor mark, <<>> for None
    next_mark,           \* analysis step: the mark after the anchor, <<>> for None
    target_segments,     \* analysis step: the segments of the section
    grouped_speeches,    \* analysis step: the speeches given to the analysis
    api_calls            \* analysis step: the calls made to the language model

vars == <<pc, voiceprints, speaker_seqs, similarity_threshold, min_speaker_duration,
          processed_segments, merged_segments, modified_segments, filtered_segments,
          segment_emb, id_voiceprints, id_threshold, id_result,
          candidates, time_marks, load_status, all_voiceprints, error, vad_segments,
          all_items, outputs, raw_mark, heap, processed_refs, merged_refs,
          filtered_refs, start_mark, next_mark, target_segments, grouped_speeches,
          api_calls>>

\* what the operations outside process_video work on
analysisVars == <<start_mark, next_mark, target_segments, grouped_speeches, api_calls>>

extVars == <<raw_mark, heap, processed_refs, merged_refs, filtered_refs, analysisVars>>

configVars == <<candidates, time_marks>>

runVars == <<load_status, all_voiceprints, error, vad_segments, all_items, outputs>>

pipeVars == <<voiceprints, speaker_seqs, similarity_threshold, min_speaker_duration,
              processed_segments, merged_segments, modified_segments, filtered_segments>>

idVars == <<segment_emb, id_voiceprints, id_threshold, id_result>>

\* ------------------------------------------------------------------ helpers
Last(s) == s[Len(s)]

\* minsec(ms): "mm:ss" of ms // 1000
minsec(ms) == <<(ms \div 1000) \div 60, (ms \div 1000) % 60>>

\* truthiness of a speaker value as Python tests it (`if prev_speaker`)
Truthy(s) == s # None /\ s # ""

\* ------------------------------------------------------- identify_speaker
\* `if similarity > best_similarity`
Better_ge(similarity, best_similarity) == similarity >= best_similarity

Better(similarity, best_similarity) == similarity > best_similarity

RECURSIVE IdentifyLoop(_, _, _, _)
\* the for loop over voiceprints.items(): best = [speaker, similarity]
IdentifyLoop(sims, names, i, best) ==
    IF i > Len(sims) THEN best
    ELSE IF sims[i] = Fail
         THEN IdentifyLoop(sims, names, i + 1, best)
         ELSE IF Better(sims[i][1], best.similarity)
              THEN IdentifyLoop(sims, names, i + 1,
                                [speaker |-> names[i], similarity |-> sims[i][1]])
              ELSE IdentifyLoop(sims, names, i + 1, best)

identify_speaker(sims, names, threshold) ==
    IF Len(names) = 0 THEN UNKNOWN
    ELSE LET best == IdentifyLoop(sims, names, 1,
                        [speaker |-> None, similarity |-> INIT_BEST_SIMILARITY])
         IN  IF best.similarity >= threshold THEN best.speaker ELSE UNKNOWN

\* ------------------------------------------------ seat-label substitution
\* the substitution without the exception for the judge
DisplaySpeaker_judgeToo(speaker, seqs) ==
    IF speaker # UNKNOWN /\ speaker \in DOMAIN seqs
    THEN IF seqs[speaker] # "" /\ seqs[speaker] # NO_SEQ THEN seqs[speaker] ELSE speaker
    ELSE speaker

DisplaySpeaker(speaker, seqs) ==
    IF speaker # UNKNOWN /\ speaker # JUDGE /\ speaker \in DOMAIN seqs
    THEN IF seqs[speaker] # "" /\ seqs[speaker] # NO_SEQ THEN seqs[speaker] ELSE speaker
    ELSE speaker

\* ------------------------------------------ merge_consecutive_same_speaker
\* "".join(current_texts)
RECURSIVE Join(_)
Join(texts) == IF texts = <<>> THEN <<>> ELSE Head(texts) \o Join(Tail(texts))

NoCurrent ==
    [speaker |-> None, display_speaker |-> None, start_ms |-> 0, end_ms |-> 0,
     texts |-> <<>>]

\* `elif speaker == current_speaker`
SameSpeaker_display(speaker, cur) == speaker = cur.display_speaker

SameSpeaker(speaker, cur) == speaker = cur.speaker

\* the assignments that open a run
NewRun(seg) ==
    [speaker |-> seg.speaker, display_speaker |-> seg.display_speaker,
     start_ms |-> seg.start_ms, end_ms |-> seg.end_ms,
     texts |-> IF seg.text # <<>> THEN <<seg.text>> ELSE <<>>]

\* the run grows by seg, its end_ms left as it was
ExtendRun_keepEnd(cur, seg) ==
    [cur EXCEPT !.texts = IF seg.text # <<>> THEN Append(@, seg.text) ELSE @]

\* the run grows by seg
ExtendRun(cur, seg) ==
    [cur EXCEPT !.end_ms = seg.end_ms,
                !.texts = IF seg.text # <<>> THEN Append(@, seg.text) ELSE @]

\* merged.append({...})
EmitRun(cur) ==
    [speaker |-> cur.speaker, display_speaker |-> cur.display_speaker,
     start_ms |-> cur.start_ms, end_ms |-> cur.end_ms,
     start |-> minsec(cur.start_ms), end |-> minsec(cur.end_ms),
     text |-> Join(cur.texts), duration_ms |-> cur.end_ms - cur.start_ms]

RECURSIVE MergeLoop(_, _, _)
\* the for loop: st = [cur, merged]
MergeLoop(segments, i, st) ==
    IF i > Len(segments) THEN st
    ELSE LET seg == segments[i]
         IN  IF st.cur.speaker = None
             THEN MergeLoop(segments, i + 1, [st EXCEPT !.cur = NewRun(seg)])
             ELSE IF SameSpeaker(seg.speaker, st.cur)
                  THEN MergeLoop(segments, i + 1,
                                 [st EXCEPT !.cur = ExtendRun(st.cur, seg)])
                  ELSE MergeLoop(segments, i + 1,
                                 [cur |-> NewRun(seg),
                                  merged |-> Append(st.merged, EmitRun(st.cur))])

\* the loop without the final append of the open run
merge_noFinalAppend(segments) ==
    IF segments = <<>> THEN <<>>
    ELSE MergeLoop(segments, 1, [cur |-> NoCurrent, merged |-> <<>>]).merged

merge_consecutive_same_speaker(segments) ==
    IF segments = <<>> THEN <<>>
    ELSE LET st == MergeLoop(segments, 1, [cur |-> NoCurrent, merged |-> <<>>])
         IN  IF st.cur.speaker # None
             THEN Append(st.merged, EmitRun(st.cur))
             ELSE st.merged

\* ------------------------------------------- filter_short_speaker_segments
\* int(min_duration_ms * 1000), the argument taken as milliseconds already
MinDurationThreshold_ms(min_duration_ms) == min_duration_ms

\* min_duration_threshold = int(min_duration_ms * 1000)
MinDurationThreshold(min_duration_ms) == min_duration_ms * 1000

\* `duration <= min_duration_threshold and speaker != "未知"`
NeedsRelabel_le(segment, min_duration_threshold) ==
    segment.duration_ms <= min_duration_threshold /\ segment.speaker # UNKNOWN

\* the duration test alone
NeedsRelabel_anySpeaker(segment, min_duration_threshold) ==
    segment.duration_ms < min_duration_threshold

\* the sentinel test against the judge
NeedsRelabel_judge(segment, min_duration_threshold) ==
    segment.duration_ms < min_duration_threshold /\ segment.speaker # JUDGE

\* `if duration < min_duration_threshold and speaker != "未知"`
NeedsRelabel(segment, min_duration_threshold) ==
    segment.duration_ms < min_duration_threshold /\ segment.speaker # UNKNOWN

\* the loop body with the predecessor and successor rules applied only when the
\* other neighbour is absent
RelabelAt_onlyNeighbour(merged, i, min_duration_threshold) ==
    LET segment == merged[i]
        prev_speaker == IF i > 1 THEN merged[i - 1].speaker ELSE None
        next_speaker == IF i < Len(merged) THEN merged[i + 1].speaker ELSE None
    IN  IF NeedsRelabel(segment, min_duration_threshold)
        THEN IF Truthy(prev_speaker) /\ prev_speaker = next_speaker
             THEN [segment EXCEPT !.speaker = prev_speaker]
             ELSE IF Truthy(prev_speaker) /\ ~Truthy(next_speaker)
                  THEN [segment EXCEPT !.speaker = prev_speaker]
                  ELSE IF Truthy(next_speaker) /\ ~Truthy(prev_speaker)
                       THEN [segment EXCEPT !.speaker = next_speaker]
                       ELSE segment
        ELSE segment

\* the loop body with display_speaker relabeled along with speaker
RelabelAt_withDisplay(merged, i, min_duration_threshold) ==
    LET segment == merged[i]
        prev_speaker == IF i > 1 THEN merged[i - 1].speaker ELSE None
        next_speaker == IF i < Len(merged) THEN merged[i + 1].speaker ELSE None
    IN  IF NeedsRelabel(segment, min_duration_threshold)
        THEN IF Truthy(prev_speaker)
             THEN [segment EXCEPT !.speaker = prev_speaker,
                                  !.display_speaker = merged[i - 1].display_speaker]
             ELSE IF Truthy(next_speaker)
                  THEN [segment EXCEPT !.speaker = next_speaker,
                                       !.display_speaker = merged[i + 1].display_speaker]
                  ELSE segment
        ELSE segment

\* the body of the relabel loop for index i (1-based) of merged_segments
RelabelAt(merged, i, min_duration_threshold) ==
    LET segment == merged[i]
        prev_speaker == IF i > 1 THEN merged[i - 1].speaker ELSE None
        next_speaker == IF i < Len(merged) THEN merged[i + 1].speaker ELSE None
    IN  IF NeedsRelabel(segment, min_duration_threshold)
        THEN IF Truthy(prev_speaker) /\ prev_speaker = next_speaker
             THEN [segment EXCEPT !.speaker = prev_speaker]
             ELSE IF Truthy(prev_speaker)
                  THEN [segment EXCEPT !.speaker = prev_speaker]
                  ELSE IF Truthy(next_speaker)
                       THEN [segment EXCEPT !.speaker = next_speaker]
                       ELSE segment
        ELSE segment

RECURSIVE RelabelInPlaceLoop(_, _, _)
\* the loop writing each relabeled segment back into the list it reads
RelabelInPlaceLoop(list, i, min_duration_threshold) ==
    IF i > Len(list) THEN list
    ELSE RelabelInPlaceLoop(
             [list EXCEPT ![i] = RelabelAt(list, i, min_duration_threshold)],
             i + 1, min_duration_threshold)

\* the relabel loop run in place
Relabel_inPlace(merged, min_duration_threshold) ==
    RelabelInPlaceLoop(merged, 1, min_duration_threshold)

\* modified_segments after the relabel loop
Relabel(merged, min_duration_threshold) ==
    [i \in 1..Len(merged) |-> RelabelAt(merged, i, min_duration_threshold)]

\* current absorbs next_seg, its duration_ms left as it was
Absorb_keepDuration(current, next_seg) ==
    [current EXCEPT !.end_ms = next_seg.end_ms,
                    !.end = minsec(next_seg.end_ms),
                    !.text = @ \o next_seg.text]

\* current absorbs next_seg but for its text
Absorb_noText(current, next_seg) ==
    [current EXCEPT !.end_ms = next_seg.end_ms,
                    !.end = minsec(next_seg.end_ms),
                    !.duration_ms = next_seg.end_ms - current.start_ms]

\* current absorbs next_seg
Absorb(current, next_seg) ==
    [current EXCEPT !.end_ms = next_seg.end_ms,
                    !.end = minsec(next_seg.end_ms),
                    !.text = @ \o next_seg.text,
                    !.duration_ms = next_seg.end_ms - current.start_ms]

RECURSIVE ReMergeLoop(_, _, _, _)
\* the second loop: current and final_merged over modified_segments[i..]
ReMergeLoop(modified, i, current, final_merged) ==
    IF i > Len(modified) THEN Append(final_merged, current)
    ELSE IF current.speaker = modified[i].speaker
         THEN ReMergeLoop(modified, i + 1, Absorb(current, modified[i]), final_merged)
         ELSE ReMergeLoop(modified, i + 1, modified[i], Append(final_merged, current))

ReMerge(modified) ==
    IF modified = <<>> THEN <<>>
    ELSE ReMergeLoop(modified, 2, modified[1], <<>>)

\* the relabel loop ran (no early return)
RelabelRuns(merged) == Len(merged) > 1

\* the relabeled list returned as it is, without the second loop
filter_noReMerge(merged, min_duration_ms) ==
    IF ~RelabelRuns(merged) THEN merged
    ELSE Relabel(merged, MinDurationThreshold(min_duration_ms))

filter_short_speaker_segments(merged, min_duration_ms) ==
    IF ~RelabelRuns(merged) THEN merged
    ELSE ReMerge(Relabel(merged, MinDurationThreshold(min_duration_ms)))

\* ---------------------------------------- filter_voiceprints_by_candidates
\* the names of a sequence
Names(seq) == {seq[i] : i \in 1..Len(seq)}

\* the candidates that have a voiceprint, in the candidates' order
CandidatesWithVoiceprint(all, cands) ==
    SelectSeq(cands, LAMBDA c : c \in Names(all))

\* [ok, names]: the filtered library, or the KeyError of voiceprints['法官'] when
\* the library has no judge entry
filter_voiceprints_by_candidates(all, cands) ==
    IF cands = <<>> THEN [ok |-> TRUE, names |-> all]
    ELSE IF JUDGE \notin Names(all) THEN [ok |-> FALSE, names |-> <<>>]
    ELSE LET filtered == CandidatesWithVoiceprint(all, cands)
         IN  [ok |-> TRUE,
              names |-> IF JUDGE \in Names(filtered) THEN filtered
                        ELSE Append(filtered, JUDGE)]

\* ----------------------------------------------------- per-segment loop body
\* what process_audio_segment_for_asr returns: the transcription, "" when it failed
AsrText(asr_ok, heard) == IF asr_ok THEN heard ELSE <<>>

\* the record the loop appends for one raw segment; hasEmb is whether
\* process_audio_segment_for_embedding returned an embedding (not None)
IdentifiedSegment(segment, hasEmb, sims, text, names, threshold, seqs) ==
    LET speaker == IF hasEmb THEN identify_speaker(sims, names, threshold) ELSE UNKNOWN
    IN  [start_ms |-> segment.start_ms, end_ms |-> segment.end_ms,
         duration_ms |-> segment.duration_ms,
         speaker |-> speaker,
         display_speaker |-> DisplaySpeaker(speaker, seqs),
         text |-> text]

\* the iteration leaves a segment out when its embedding failed
LoopAppend_skipFailed(processed, segment, hasEmb, sims, text, names, threshold, seqs) ==
    IF hasEmb
    THEN Append(processed,
                IdentifiedSegment(segment, hasEmb, sims, text, names, threshold, seqs))
    ELSE processed

\* processed_segments after one iteration of the loop
LoopAppend(processed, segment, hasEmb, sims, text, names, threshold, seqs) ==
    Append(processed,
           IdentifiedSegment(segment, hasEmb, sims, text, names, threshold, seqs))

\* the next raw segment of the VAD: it starts where the last one ended
RawSegment(processed, dur) ==
    LET start_ms == IF processed = <<>> THEN 0 ELSE Last(processed).end_ms
    IN  [start_ms |-> start_ms, end_ms |-> start_ms + dur, duration_ms |-> dur]

\* ------------------------------------------------------------- the timeline
SpeechItem(segment) ==
    [start_ms |-> segment.start_ms, type |-> "speech", data |-> segment]

MarkItem(mark) ==
    [start_ms |-> mark.start_ms, type |-> "time_mark", data |-> mark]

RECURSIVE InsertByStart_before(_, _)
\* item goes before the items of the same start_ms
InsertByStart_before(sorted, item) ==
    IF sorted = <<>> THEN <<item>>
    ELSE IF Head(sorted).start_ms < item.start_ms
         THEN <<Head(sorted)>> \o InsertByStart_before(Tail(sorted), item)
         ELSE <<item>> \o sorted

RECURSIVE InsertByStart(_, _)
\* item goes after the items whose start_ms is not greater (a stable insertion)
InsertByStart(sorted, item) ==
    IF sorted = <<>> THEN <<item>>
    ELSE IF Head(sorted).start_ms <= item.start_ms
         THEN <<Head(sorted)>> \o InsertByStart(Tail(sorted), item)
         ELSE <<item>> \o sorted

\* the list left in the order it was built
SortByStart_unsorted(items) == items

RECURSIVE SortByStart(_)
\* all_items.sort(key=lambda x: x["start_ms"]): ascending and stable
SortByStart(items) ==
    IF items = <<>> THEN <<>>
    ELSE InsertByStart(SortByStart(SubSeq(items, 1, Len(items) - 1)), Last(items))

\* no item at all when there is no segment
BuildTimeline_nothingWithoutSegments(filtered, marks) ==
    IF filtered = <<>> THEN <<>>
    ELSE SortByStart([i \in 1..Len(filtered) |-> SpeechItem(filtered[i])]
                     \o [i \in 1..Len(marks) |-> MarkItem(marks[i])])

\* all_items: the segments, then the marks, sorted by start_ms
BuildTimeline(filtered, marks) ==
    SortByStart([i \in 1..Len(filtered) |-> SpeechItem(filtered[i])]
                \o [i \in 1..Len(marks) |-> MarkItem(marks[i])])

\* ------------------------------------- the merge and the corrector on dicts
\* the dicts a list of identities names
Deref(objects, refs) == [i \in 1..Len(refs) |-> objects[refs[i]]]

\* a new dict
Alloc(objects, value) ==
    [heap |-> Append(objects, value), ref |-> Len(objects) + 1]

\* the dict itself in place of a copy
CopySegment_alias(objects, ref) == [heap |-> objects, ref |-> ref]

\* segment.copy()
CopySegment(objects, ref) == Alloc(objects, objects[ref])

\* merge_consecutive_same_speaker: it reads the dicts of its list and appends
\* dict literals to a new list
merge_on_heap(objects, refs) ==
    LET merged == merge_consecutive_same_speaker(Deref(objects, refs))
    IN  [heap |-> objects \o merged,
         refs |-> [k \in 1..Len(merged) |-> Len(objects) + k]]

RECURSIVE HeapRelabelLoop(_, _, _, _, _)
\* the relabel loop: a segment to relabel is copied and the copy gets the new
\* speaker; any other segment goes to modified_segments as it is
HeapRelabelLoop(objects, merged, i, modified, min_duration_threshold) ==
    IF i > Len(merged) THEN [heap |-> objects, refs |-> modified]
    ELSE LET segment == objects[merged[i]]
             prev_speaker == IF i > 1 THEN objects[merged[i - 1]].speaker ELSE None
             next_speaker == IF i < Len(merged) THEN objects[merged[i + 1]].speaker
                             ELSE None
             new_speaker == IF Truthy(prev_speaker) THEN prev_speaker ELSE next_speaker
         IN  IF NeedsRelabel(segment, min_duration_threshold) /\ Truthy(new_speaker)
             THEN LET c == CopySegment(objects, merged[i])
                  IN  HeapRelabelLoop([c.heap EXCEPT ![c.ref].speaker = new_speaker],
                                      merged, i + 1, Append(modified, c.ref),
                                      min_duration_threshold)
             ELSE HeapRelabelLoop(objects, merged, i + 1, Append(modified, merged[i]),
                                  min_duration_threshold)

RECURSIVE HeapReMergeLoop(_, _, _, _, _)
\* the second loop: current is a copy, extended in place
HeapReMergeLoop(objects, modified, i, current, final_merged) ==
    IF i > Len(modified)
    THEN [heap |-> objects, refs |-> Append(final_merged, current)]
    ELSE LET next_seg == objects[modified[i]]
         IN  IF objects[current].speaker = next_seg.speaker
             THEN HeapReMergeLoop(
                      [objects EXCEPT ![current] = Absorb(objects[current], next_seg)],
                      modified, i + 1, current, final_merged)
             ELSE LET c == CopySegment(objects, modified[i])
                  IN  HeapReMergeLoop(c.heap, modified, i + 1, c.ref,
                                      Append(final_merged, current))

\* filter_short_speaker_segments: a list of at most one segment is returned as
\* it is
filter_on_heap(objects, merged, min_duration_ms) ==
    IF Len(merged) <= 1 THEN [heap |-> objects, refs |-> merged]
    ELSE LET r == HeapRelabelLoop(objects, merged, 1, <<>>,
                                  MinDurationThreshold(min_duration_ms))
             c == CopySegment(r.heap, r.refs[1])
         IN  HeapReMergeLoop(c.heap, r.refs, 2, c.ref, <<>>)

\* ---------------------------------------------------------- parse_config_file
\* a time marker of the configuration file: a JSON string, as its characters, or a
\* JSON number
StringMarker(chars) == [type |-> "str", chars |-> chars, value |-> 0]
NumberMarker(n) == [type |-> "num", chars |-> <<>>, value |-> n]

DigitChars == <<"0", "1", "2", "3", "4", "5", "6", "7", "8", "9">>

IsDigit(c) == \E d \in 1..Len(DigitChars) : DigitChars[d] = c

DigitValue(c) == (CHOOSE d \in 1..Len(DigitChars) : DigitChars[d] = c) - 1

\* int(part) succeeds: a non-empty string of digits
IsInt(part) == part # <<>> /\ \A k \in 1..Len(part) : IsDigit(part[k])

RECURSIVE IntOf(_)
\* int(part)
IntOf(part) ==
    IF part = <<>> THEN 0
    ELSE IntOf(SubSeq(part, 1, Len(part) - 1)) * 10 + DigitValue(Last(part))

RECURSIVE Split(_)
\* time_str.split(':')
Split(chars) ==
    IF chars = <<>> THEN << <<>> >>
    ELSE LET rest == Split(Tail(chars))
         IN  IF Head(chars) = ":"
             THEN << <<>> >> \o rest
             ELSE << <<Head(chars)>> \o Head(rest) >> \o Tail(rest)

\* the value parse_time_to_ms returns: <<ms>>, or <<>> for None
Ms(ms) == <<ms>>
NoTime == <<>>

\* the frame-count branch: float(time_str) succeeds on a string of digits and
\* fails on a string with a colon or a letter
ParseFrames(chars) ==
    IF IsInt(chars) THEN Ms((IntOf(chars) * 1000) \div FPS) ELSE NoTime

\* parse_time_to_ms on a string
parse_time_to_ms(chars) ==
    LET parts == Split(chars)
    IN  IF \E k \in 1..Len(chars) : chars[k] = ":"
        THEN IF Len(parts) = 2 /\ IsInt(parts[1]) /\ IsInt(parts[2])
             THEN Ms((IntOf(parts[1]) * 60 + IntOf(parts[2])) * 1000)
             ELSE IF Len(parts) = 3 /\ IsInt(parts[1]) /\ IsInt(parts[2])
                     /\ IsInt(parts[3])
                  THEN Ms((IntOf(parts[1]) * 3600 + IntOf(parts[2]) * 60
                           + IntOf(parts[3])) * 1000)
                  ELSE ParseFrames(chars)
        ELSE ParseFrames(chars)

\* `not time_str`: the empty string and the number 0
FalsyTime(time) ==
    IF time.type = "str" THEN time.chars = <<>> ELSE time.value = 0

\* an entry of the file's time_marks
RawMark(time, label) == [time |-> time, label |-> label]

\* no entry is being parsed
NoRawMark == [time |-> StringMarker(<<>>), label |-> ""]

\* the operations outside process_video are not running
\* the analysis step is not running
AnalysisIdle ==
    /\ start_mark = <<>>
    /\ next_mark = <<>>
    /\ target_segments = <<>>
    /\ grouped_speeches = <<>>
    /\ api_calls = 0

\* no dict is followed by identity
HeapIdle ==
    /\ heap = <<>>
    /\ processed_refs = <<>>
    /\ merged_refs = <<>>
    /\ filtered_refs = <<>>

ExtIdle ==
    /\ AnalysisIdle
    /\ HeapIdle
    /\ raw_mark = NoRawMark

\* ------------------------------------------------------------ process_video
\* the configuration of the run, as parse_config_file returns it
DefaultSeqs ==
    [n \in {JUDGE, "A", "B"} |->
        IF n = "A" THEN "seat1" ELSE IF n = "B" THEN "" ELSE NO_SEQ]

DefaultCandidates == <<"A", "B", JUDGE>>

DefaultTimeMarks ==
    <<[start_ms |-> 0, label |-> "mark1"], [start_ms |-> 5000, label |-> "mark2"]>>

Init ==
    /\ pc = "start"
    /\ voiceprints = <<>>
    /\ speaker_seqs = DefaultSeqs
    /\ candidates = DefaultCandidates
    /\ time_marks = DefaultTimeMarks
    /\ load_status = None
    /\ all_voiceprints = <<>>
    /\ error = None
    /\ vad_segments = <<>>
    /\ all_items = <<>>
    /\ outputs = <<>>
    /\ similarity_threshold = DEFAULT_SIMILARITY_THRESHOLD
    /\ min_speaker_duration = DEFAULT_MIN_SPEAKER_DURATION
    /\ processed_segments = <<>>
    /\ merged_segments = <<>>
    /\ modified_segments = <<>>
    /\ filtered_segments = <<>>
    /\ segment_emb = <<>>
    /\ id_voiceprints = <<>>
    /\ id_threshold = DEFAULT_SIMILARITY_THRESHOLD
    /\ id_result = None
    /\ ExtIdle

\* what process_audio_segment_for_embedding and the comparisons give for a
\* segment: no embedding, or the similarity to each entry of the library, above
\* the default threshold for at most one entry
EmbeddingOutcomes(names) ==
    {[ok |-> FALSE, sims |-> <<>>]}
    \cup {[ok |-> TRUE,
           sims |-> [j \in 1..Len(names) |-> IF j = k THEN Sim(42) ELSE Sim(25)]] :
          k \in 0..Len(names)}

\* one iteration of the per-segment loop: the raw segment's duration, whether the
\* embedding was extracted and its similarity to each library entry, and the
\* transcribed text are the inputs. The run uses the default similarity threshold,
\* so similarities below (25) and above (42) it, and entries that cannot be
\* compared, give every outcome of the identification; identify_speaker is
\* explored over all its inputs under SpecIdentify.
ProcessSegment ==
    /\ pc = "loop"
    /\ Len(processed_segments) < MaxSegs
    /\ \E dur \in Durations, hasEmb \in BOOLEAN,
          sims \in [1..Len(voiceprints) -> {Sim(25), Sim(42), Fail}],
          hasText \in BOOLEAN :
        LET i == Len(processed_segments) + 1
        IN  processed_segments' =
                LoopAppend(processed_segments, RawSegment(processed_segments, dur),
                           hasEmb, sims, IF hasText THEN <<i>> ELSE <<>>,
                           voiceprints, similarity_threshold, speaker_seqs)
    /\ UNCHANGED <<pc, voiceprints, speaker_seqs, similarity_threshold,
                   min_speaker_duration, merged_segments, modified_segments,
                   filtered_segments>>
    /\ UNCHANGED <<idVars, extVars, configVars, runVars>>

\* the same iteration, the raw segment and what the two services returned for it
\* kept in vad_segments: the embedding (its similarity to each library entry) or its
\* failure, the transcription or its failure
ProcessRawSegment ==
    /\ pc = "loop"
    /\ Len(processed_segments) < MaxSegs
    /\ \E dur \in Durations, asr_ok \in BOOLEAN, hasText \in BOOLEAN,
          emb \in EmbeddingOutcomes(voiceprints) :
        LET i == Len(processed_segments) + 1
            raw == RawSegment(processed_segments, dur)
            heard == IF hasText THEN <<i>> ELSE <<>>
        IN  /\ asr_ok \/ ~hasText
            /\ processed_segments' =
                    LoopAppend(processed_segments, raw, emb.ok, emb.sims,
                               AsrText(asr_ok, heard),
                               voiceprints, similarity_threshold, speaker_seqs)
            /\ vad_segments' = Append(vad_segments,
                    [start_ms |-> raw.start_ms, end_ms |-> raw.end_ms,
                     emb_ok |-> emb.ok, sims |-> emb.sims,
                     asr_ok |-> asr_ok, heard |-> heard])
    /\ UNCHANGED <<pc, voiceprints, speaker_seqs, similarity_threshold,
                   min_speaker_duration, merged_segments, modified_segments,
                   filtered_segments>>
    /\ UNCHANGED <<idVars, extVars, configVars>>
    /\ UNCHANGED <<load_status, all_voiceprints, error, all_items, outputs>>

\* merged_segments = merge_consecutive_same_speaker(processed_segments)
MergeStep ==
    /\ pc = "loop"
    /\ merged_segments' = merge_consecutive_same_speaker(processed_segments)
    /\ pc' = "merged"
    /\ UNCHANGED <<voiceprints, speaker_seqs, similarity_threshold, min_speaker_duration,
                   processed_segments, modified_segments, filtered_segments>>
    /\ UNCHANGED <<idVars, extVars, configVars, runVars>>

\* the corrector, or its bypass when min_speaker_duration <= 0
FilterStep ==
    /\ pc = "merged"
    /\ \E m \in MinSpeakerDurations :
        /\ min_speaker_duration' = m
        /\ IF m > 0
           THEN /\ filtered_segments' = filter_short_speaker_segments(merged_segments, m)
                /\ modified_segments' =
                      IF RelabelRuns(merged_segments)
                      THEN Relabel(merged_segments, MinDurationThreshold(m))
                      ELSE <<>>
           ELSE /\ filtered_segments' = merged_segments
                /\ modified_segments' = <<>>
    /\ pc' = "filtered"
    /\ UNCHANGED <<voiceprints, speaker_seqs, similarity_threshold,
                   processed_segments, merged_segments>>
    /\ UNCHANGED <<idVars, extVars, configVars, runVars>>

\* the audio file check that opens process_video
CheckAudio ==
    /\ pc = "start"
    /\ \E mp3_exists \in BOOLEAN :
        IF mp3_exists
        THEN pc' = "load" /\ error' = error
        ELSE pc' = "aborted" /\ error' = "FileNotFoundError"
    /\ UNCHANGED <<pipeVars, idVars, extVars, configVars>>
    /\ UNCHANGED <<load_status, all_voiceprints, vad_segments, all_items, outputs>>

\* load_voiceprints(): the library of the file, {} when the file is missing,
\* cannot be read or holds no entry
load_voiceprints(outcome, library) ==
    IF outcome = "ok" THEN library ELSE <<>>

\* the run goes on whatever was loaded
LibraryUsable_always(all) == TRUE

\* the test process_video makes on the loaded library
LibraryUsable(all) == all # <<>>

\* all_voiceprints = load_voiceprints(); an empty library raises RuntimeError
LoadVoiceprints ==
    /\ pc = "load"
    /\ \E outcome \in LoadOutcomes, library \in Libraries :
        /\ load_status' = outcome
        /\ all_voiceprints' = load_voiceprints(outcome, library)
    /\ IF LibraryUsable(all_voiceprints')
       THEN pc' = "loaded" /\ error' = error
       ELSE pc' = "aborted" /\ error' = "RuntimeError"
    /\ UNCHANGED <<pipeVars, idVars, extVars, configVars>>
    /\ UNCHANGED <<vad_segments, all_items, outputs>>

\* voiceprints = filter_voiceprints_by_candidates(all_voiceprints, candidates),
\* the whole library when nothing is left
FilterVoiceprints ==
    /\ pc = "loaded"
    /\ LET r == filter_voiceprints_by_candidates(all_voiceprints, candidates)
       IN  IF r.ok
           THEN /\ voiceprints' = IF r.names = <<>> THEN all_voiceprints ELSE r.names
                /\ pc' = "loop"
                /\ error' = error
           ELSE /\ voiceprints' = voiceprints
                /\ pc' = "aborted"
                /\ error' = "KeyError"
    /\ UNCHANGED <<speaker_seqs, similarity_threshold, min_speaker_duration,
                   processed_segments, merged_segments, modified_segments,
                   filtered_segments>>
    /\ UNCHANGED <<idVars, extVars, configVars>>
    /\ UNCHANGED <<load_status, all_voiceprints, vad_segments, all_items, outputs>>

\* the two output files: the JSON record, and the text with the timeline
WriteOutputs ==
    /\ pc = "filtered"
    /\ all_items' = BuildTimeline(filtered_segments, time_marks)
    /\ outputs' = <<"json", "txt">>
    /\ pc' = "done"
    /\ UNCHANGED <<pipeVars, idVars, extVars, configVars>>
    /\ UNCHANGED <<load_status, all_voiceprints, error, vad_segments>>

Next ==
    \/ CheckAudio
    \/ LoadVoiceprints
    \/ FilterVoiceprints
    \/ ProcessSegment
    \/ MergeStep
    \/ FilterStep
    \/ WriteOutputs

Spec == Init /\ [][Next]_vars

\* --------------------------------------- the stages after the per-segment loop
RECURSIVE IdentifiedLists(_, _, _, _)
\* the lists of at most n identified segments the loop can have built
IdentifiedLists(n, names, threshold, seqs) ==
    IF n = 0 THEN {<<>>}
    ELSE LET shorter == IdentifiedLists(n - 1, names, threshold, seqs)
         IN  shorter \cup
             {LoopAppend(p, RawSegment(p, dur), emb.ok, emb.sims, <<Len(p) + 1>>,
                         names, threshold, seqs) :
                p \in {q \in shorter : Len(q) = n - 1},
                dur \in Durations,
                emb \in EmbeddingOutcomes(names)}

\* config['time_marks']: at most MaxMarks marks, sorted by start_ms
TimeMarkLists ==
    UNION {{[i \in 1..n |-> [start_ms |-> t[i], label |-> MarkLabels[i]]] :
              t \in {u \in [1..n -> MarkTimes] :
                        \A i \in 1..(n - 1) : u[i] <= u[i + 1]}} :
           n \in 0..MaxMarks}

\* the per-segment loop has run over the raw segments; the roster has any time
\* marks
InitTimeline ==
    /\ pc = "loop"
    /\ voiceprints = <<"A", "B", JUDGE>>
    /\ speaker_seqs = DefaultSeqs
    /\ candidates = DefaultCandidates
    /\ time_marks \in TimeMarkLists
    /\ load_status = "ok"
    /\ all_voiceprints = <<JUDGE, "A", "B">>
    /\ error = None
    /\ vad_segments = <<>>
    /\ all_items = <<>>
    /\ outputs = <<>>
    /\ similarity_threshold = DEFAULT_SIMILARITY_THRESHOLD
    /\ min_speaker_duration = DEFAULT_MIN_SPEAKER_DURATION
    /\ processed_segments \in
           IdentifiedLists(MaxTimelineSegs, <<"A", "B", JUDGE>>,
                           DEFAULT_SIMILARITY_THRESHOLD, DefaultSeqs)
    /\ merged_segments = <<>>
    /\ modified_segments = <<>>
    /\ filtered_segments = <<>>
    /\ segment_emb = <<>>
    /\ id_voiceprints = <<>>
    /\ id_threshold = DEFAULT_SIMILARITY_THRESHOLD
    /\ id_result = None
    /\ ExtIdle

NextTimeline ==
    \/ MergeStep
    \/ FilterStep
    \/ WriteOutputs

SpecTimeline == InitTimeline /\ [][NextTimeline]_vars

\* ------------------------------------------- the loop under any seat labels
\* config['speaker_seqs']: the judge is always on the roster, with the seat label
\* of the configuration or NO_SEQ; "A" is absent or has a seat label, an empty one
\* or NO_SEQ; a participant may carry the name used for UNKNOWN
DisplayRosters ==
    {[n \in {JUDGE} \cup (IF a = None THEN {} ELSE {"A"})
                    \cup (IF u THEN {UNKNOWN} ELSE {}) |->
        IF n = "A" THEN a ELSE IF n = JUDGE THEN j ELSE "seat7"] :
     a \in {None, "seat1", "", NO_SEQ}, j \in {NO_SEQ, "seat9"}, u \in BOOLEAN}

\* process_video at its per-segment loop, for a library of "A" and the judge; the
\* candidates are the roster, or none for a configuration without "A"
InitDisplay ==
    /\ pc = "loop"
    /\ speaker_seqs \in DisplayRosters
    /\ candidates = IF "A" \in DOMAIN speaker_seqs THEN <<"A", JUDGE>> ELSE <<>>
    /\ all_voiceprints = <<JUDGE, "A">>
    /\ voiceprints = filter_voiceprints_by_candidates(all_voiceprints, candidates).names
    /\ time_marks = DefaultTimeMarks
    /\ load_status = "ok"
    /\ error = None
    /\ vad_segments = <<>>
    /\ all_items = <<>>
    /\ outputs = <<>>
    /\ similarity_threshold = DEFAULT_SIMILARITY_THRESHOLD
    /\ min_speaker_duration = DEFAULT_MIN_SPEAKER_DURATION
    /\ processed_segments = <<>>
    /\ merged_segments = <<>>
    /\ modified_segments = <<>>
    /\ filtered_segments = <<>>
    /\ segment_emb = <<>>
    /\ id_voiceprints = <<>>
    /\ id_threshold = DEFAULT_SIMILARITY_THRESHOLD
    /\ id_result = None
    /\ ExtIdle

NextDisplay == ProcessSegment

SpecDisplay == InitDisplay /\ [][NextDisplay]_vars

\* ------------------------------- the loop with the outcome of each service
\* process_video at its per-segment loop, for a library of "A" and the judge
InitLoop ==
    /\ pc = "loop"
    /\ speaker_seqs = DefaultSeqs
    /\ candidates = <<"A", JUDGE>>
    /\ all_voiceprints = <<JUDGE, "A">>
    /\ voiceprints = filter_voiceprints_by_candidates(all_voiceprints, candidates).names
    /\ time_marks = DefaultTimeMarks
    /\ load_status = "ok"
    /\ error = None
    /\ vad_segments = <<>>
    /\ all_items = <<>>
    /\ outputs = <<>>
    /\ similarity_threshold = DEFAULT_SIMILARITY_THRESHOLD
    /\ min_speaker_duration = DEFAULT_MIN_SPEAKER_DURATION
    /\ processed_segments = <<>>
    /\ merged_segments = <<>>
    /\ modified_segments = <<>>
    /\ filtered_segments = <<>>
    /\ segment_emb = <<>>
    /\ id_voiceprints = <<>>
    /\ id_threshold = DEFAULT_SIMILARITY_THRESHOLD
    /\ id_result = None
    /\ ExtIdle

NextLoop == ProcessRawSegment

SpecLoop == InitLoop /\ [][NextLoop]_vars

\* ------------------------------------ parse_config_file on one time mark
\* the entry is a labelled time marker, a string of at most MaxTimeLen characters
\* or a number, or a time marker without label
InitParse ==
    /\ pc = "config"
    /\ \/ \E n \in 0..MaxTimeLen : \E chars \in [1..n -> TimeChars] :
              raw_mark = RawMark(StringMarker(chars), "mark1")
       \/ \E frames \in FrameCounts :
              raw_mark = RawMark(NumberMarker(frames), "mark1")
       \/ raw_mark = RawMark(StringMarker(<<"1", "5", "0">>), "")
    /\ HeapIdle
    /\ AnalysisIdle
    /\ voiceprints = <<>>
    /\ speaker_seqs = DefaultSeqs
    /\ candidates = DefaultCandidates
    /\ time_marks = <<>>
    /\ load_status = None
    /\ all_voiceprints = <<>>
    /\ error = None
    /\ vad_segments = <<>>
    /\ all_items = <<>>
    /\ outputs = <<>>
    /\ similarity_threshold = DEFAULT_SIMILARITY_THRESHOLD
    /\ min_speaker_duration = DEFAULT_MIN_SPEAKER_DURATION
    /\ processed_segments = <<>>
    /\ merged_segments = <<>>
    /\ modified_segments = <<>>
    /\ filtered_segments = <<>>
    /\ segment_emb = <<>>
    /\ id_voiceprints = <<>>
    /\ id_threshold = DEFAULT_SIMILARITY_THRESHOLD
    /\ id_result = None

\* the loop body over the file's time_marks, for the entry raw_mark: an entry
\* without time or label is skipped; time_str.strip() raises AttributeError on a
\* value that is not a string; a time parse_time_to_ms returns None for gives no
\* time mark
ParseTimeMark ==
    /\ pc = "config"
    /\ IF FalsyTime(raw_mark.time) \/ raw_mark.label = ""
       THEN /\ time_marks' = <<>>
            /\ pc' = "parsed"
            /\ error' = error
       ELSE IF raw_mark.time.type # "str"
            THEN /\ time_marks' = time_marks
                 /\ pc' = "aborted"
                 /\ error' = "AttributeError"
            ELSE LET start_ms == parse_time_to_ms(raw_mark.time.chars)
                 IN  /\ time_marks' =
                          IF start_ms # NoTime
                          THEN <<[start_ms |-> start_ms[1], label |-> raw_mark.label]>>
                          ELSE <<>>
                     /\ pc' = "parsed"
                     /\ error' = error
    /\ UNCHANGED <<pipeVars, idVars, extVars, candidates>>
    /\ UNCHANGED <<load_status, all_voiceprints, vad_segments, all_items, outputs>>

NextParse == ParseTimeMark

SpecParse == InitParse /\ [][NextParse]_vars

\* --------------------------- the merge and the corrector, dict by dict
\* the per-segment loop has appended its dicts; processed_segments keeps what
\* they held then
InitHeap ==
    /\ pc = "loop"
    /\ voiceprints = <<"A", "B", JUDGE>>
    /\ speaker_seqs = DefaultSeqs
    /\ candidates = DefaultCandidates
    /\ time_marks = DefaultTimeMarks
    /\ load_status = "ok"
    /\ all_voiceprints = <<JUDGE, "A", "B">>
    /\ error = None
    /\ vad_segments = <<>>
    /\ all_items = <<>>
    /\ outputs = <<>>
    /\ similarity_threshold = DEFAULT_SIMILARITY_THRESHOLD
    /\ min_speaker_duration = DEFAULT_MIN_SPEAKER_DURATION
    /\ processed_segments \in
           IdentifiedLists(MaxSegs, <<"A", "B", JUDGE>>,
                           DEFAULT_SIMILARITY_THRESHOLD, DefaultSeqs)
    /\ heap = processed_segments
    /\ processed_refs = [i \in 1..Len(processed_segments) |-> i]
    /\ merged_refs = <<>>
    /\ filtered_refs = <<>>
    /\ raw_mark = NoRawMark
    /\ AnalysisIdle
    /\ merged_segments = <<>>
    /\ modified_segments = <<>>
    /\ filtered_segments = <<>>
    /\ segment_emb = <<>>
    /\ id_voiceprints = <<>>
    /\ id_threshold = DEFAULT_SIMILARITY_THRESHOLD
    /\ id_result = None

\* merged_segments = merge_consecutive_same_speaker(processed_segments);
\* merged_segments keeps what the new dicts hold at the return
HeapMerge ==
    /\ pc = "loop"
    /\ LET r == merge_on_heap(heap, processed_refs)
       IN  /\ heap' = r.heap
           /\ merged_refs' = r.refs
           /\ merged_segments' = Deref(r.heap, r.refs)
    /\ pc' = "merged"
    /\ UNCHANGED <<voiceprints, speaker_seqs, similarity_threshold, min_speaker_duration,
                   processed_segments, modified_segments, filtered_segments>>
    /\ UNCHANGED <<idVars, configVars, runVars, raw_mark, processed_refs, filtered_refs,
                   analysisVars>>

\* the corrector, or filtered_segments = merged_segments when
\* min_speaker_duration <= 0; filtered_segments keeps what the returned dicts hold
HeapFilter ==
    /\ pc = "merged"
    /\ \E m \in MinSpeakerDurations :
        /\ min_speaker_duration' = m
        /\ LET r == IF m > 0 THEN filter_on_heap(heap, merged_refs, m)
                    ELSE [heap |-> heap, refs |-> merged_refs]
           IN  /\ heap' = r.heap
               /\ filtered_refs' = r.refs
               /\ filtered_segments' = Deref(r.heap, r.refs)
    /\ pc' = "filtered"
    /\ UNCHANGED <<voiceprints, speaker_seqs, similarity_threshold,
                   processed_segments, merged_segments, modified_segments>>
    /\ UNCHANGED <<idVars, configVars, runVars, raw_mark, processed_refs, merged_refs,
                   analysisVars>>

NextHeap ==
    \/ HeapMerge
    \/ HeapFilter

SpecHeap == InitHeap /\ [][NextHeap]_vars

\* ----------------------------------------------------- the analysis step
\* `section_start in label`
Contains(label, words) ==
    \E k \in 0..(Len(label) - Len(words)) :
        SubSeq(label, k + 1, k + Len(words)) = words

RECURSIVE FindSection(_, _)
\* the search for the anchor from mark i on: the first mark whose label contains
\* section_start, with the mark after it
FindSection(marks, i) ==
    IF i > Len(marks) THEN [start_mark |-> <<>>, next_mark |-> <<>>]
    ELSE IF Contains(marks[i].label, SECTION_START)
         THEN [start_mark |-> <<marks[i]>>,
               next_mark |-> IF i + 1 <= Len(marks) THEN <<marks[i + 1]>> ELSE <<>>]
         ELSE FindSection(marks, i + 1)

\* the section test with its end included
InSection_inclusive(seg_start, end_ms) == end_ms = <<>> \/ seg_start <= end_ms[1]

\* `end_ms is None or seg_start < end_ms`
InSection(seg_start, end_ms) == end_ms = <<>> \/ seg_start < end_ms[1]

RECURSIVE ExtractLoop(_, _, _, _, _)
\* the loop over the log's merged_segments, left at the first segment at or after
\* end_ms
ExtractLoop(segments, i, start_ms, end_ms, target) ==
    IF i > Len(segments) THEN target
    ELSE IF segments[i].start_ms >= start_ms
         THEN IF InSection(segments[i].start_ms, end_ms)
              THEN ExtractLoop(segments, i + 1, start_ms, end_ms,
                               Append(target, segments[i]))
              ELSE target
         ELSE ExtractLoop(segments, i + 1, start_ms, end_ms, target)

\* a speech of grouped_speeches (its transcript is left out)
Speech(speaker, segments) ==
    [speaker |-> speaker, segments |-> segments,
     start_ms |-> segments[1].start_ms, end_ms |-> Last(segments).end_ms]

\* grouped with the speech in progress saved, if there is one
SaveSpeech(grouped, current_speaker, current_segments) ==
    IF current_segments # <<>>
    THEN Append(grouped, Speech(current_speaker, current_segments))
    ELSE grouped

RECURSIVE GroupLoop(_, _, _, _, _)
\* the loop of group_segments_by_speaker: the judge and UNKNOWN end the speech in
\* progress and are left out
GroupLoop(segments, i, current_speaker, current_segments, grouped) ==
    IF i > Len(segments)
    THEN SaveSpeech(grouped, current_speaker, current_segments)
    ELSE LET speaker == segments[i].display_speaker
         IN  IF speaker \in {JUDGE, UNKNOWN}
             THEN IF current_segments # <<>>
                  THEN GroupLoop(segments, i + 1, None, <<>>,
                                 SaveSpeech(grouped, current_speaker, current_segments))
                  ELSE GroupLoop(segments, i + 1, current_speaker, current_segments,
                                 grouped)
             ELSE IF current_speaker # speaker
                  THEN GroupLoop(segments, i + 1, speaker, <<segments[i]>>,
                                 SaveSpeech(grouped, current_speaker, current_segments))
                  ELSE GroupLoop(segments, i + 1, current_speaker,
                                 Append(current_segments, segments[i]), grouped)

group_segments_by_speaker(segments) == GroupLoop(segments, 1, None, <<>>, <<>>)

\* the time_marks of an ASR log: at most MaxMarks marks, ascending by start_ms
AnalysisMarkLists ==
    UNION {{[i \in 1..n |-> [start_ms |-> t[i], label |-> l[i]]] :
              t \in {u \in [1..n -> AnalysisMarkTimes] :
                        \A i \in 1..(n - 1) : u[i] <= u[i + 1]},
              l \in [1..n -> AnalysisLabels]} :
           n \in 0..MaxMarks}

\* the merged_segments of an ASR log: what process_video writes for a library of
\* "A" and the judge and at most MaxTimelineSegs raw segments
AnalysisSegmentLists ==
    {filter_short_speaker_segments(merge_consecutive_same_speaker(p),
                                   DEFAULT_MIN_SPEAKER_DURATION) :
       p \in IdentifiedLists(MaxTimelineSegs, <<"A", JUDGE>>,
                             DEFAULT_SIMILARITY_THRESHOLD, DefaultSeqs)}
    \cup {merge_consecutive_same_speaker(p) :
       p \in IdentifiedLists(MaxTimelineSegs, <<"A", JUDGE>>,
                             DEFAULT_SIMILARITY_THRESHOLD, DefaultSeqs)}

\* main of the analysis step, the ASR log loaded: its merged_segments are
\* filtered_segments, its time marks time_marks
InitAnalysis ==
    /\ pc = "main"
    /\ time_marks \in AnalysisMarkLists
    /\ filtered_segments \in AnalysisSegmentLists
    /\ voiceprints = <<"A", JUDGE>>
    /\ speaker_seqs = DefaultSeqs
    /\ candidates = DefaultCandidates
    /\ load_status = "ok"
    /\ all_voiceprints = <<JUDGE, "A">>
    /\ error = None
    /\ vad_segments = <<>>
    /\ all_items = <<>>
    /\ outputs = <<>>
    /\ similarity_threshold = DEFAULT_SIMILARITY_THRESHOLD
    /\ min_speaker_duration = DEFAULT_MIN_SPEAKER_DURATION
    /\ processed_segments = <<>>
    /\ merged_segments = <<>>
    /\ modified_segments = <<>>
    /\ segment_emb = <<>>
    /\ id_voiceprints = <<>>
    /\ id_threshold = DEFAULT_SIMILARITY_THRESHOLD
    /\ id_result = None
    /\ ExtIdle

\* the search for the section: ValueError when no label contains section_start
FindSectionStep ==
    /\ pc = "main"
    /\ LET found == FindSection(time_marks, 1)
       IN  /\ start_mark' = found.start_mark
           /\ next_mark' = found.next_mark
           /\ IF found.start_mark = <<>>
              THEN pc' = "aborted" /\ error' = "ValueError"
              ELSE pc' = "load_board" /\ error' = error
    /\ UNCHANGED <<pipeVars, idVars, configVars>>
    /\ UNCHANGED <<load_status, all_voiceprints, vad_segments, all_items, outputs>>
    /\ UNCHANGED <<raw_mark, heap, processed_refs, merged_refs, filtered_refs,
                   target_segments, grouped_speeches, api_calls>>

\* the prompts and the board configuration: ValueError when the board type of the
\* log is not in the configuration
LoadBoardConfig ==
    /\ pc = "load_board"
    /\ \E board_known \in BOOLEAN :
        IF board_known
        THEN pc' = "extract" /\ error' = error
        ELSE pc' = "aborted" /\ error' = "ValueError"
    /\ UNCHANGED <<pipeVars, idVars, configVars, extVars>>
    /\ UNCHANGED <<load_status, all_voiceprints, vad_segments, all_items, outputs>>

\* target_segments, then grouped_speeches = group_segments_by_speaker(target_segments)
ExtractAndGroup ==
    /\ pc = "extract"
    /\ target_segments' =
          ExtractLoop(filtered_segments, 1, start_mark[1].start_ms,
                      IF next_mark # <<>> THEN <<next_mark[1].start_ms>> ELSE <<>>,
                      <<>>)
    /\ grouped_speeches' = group_segments_by_speaker(target_segments')
    /\ pc' = "analyse"
    /\ UNCHANGED <<pipeVars, idVars, configVars, runVars>>
    /\ UNCHANGED <<raw_mark, heap, processed_refs, merged_refs, filtered_refs,
                   start_mark, next_mark, api_calls>>

\* one round of progressive_analysis: a call to the language model for the next
\* speech; a failed call is recorded in the analysis and the loop goes on
AnalyseSpeech ==
    /\ pc = "analyse"
    /\ api_calls < Len(grouped_speeches)
    /\ api_calls' = api_calls + 1
    /\ UNCHANGED <<pc, pipeVars, idVars, configVars, runVars>>
    /\ UNCHANGED <<raw_mark, heap, processed_refs, merged_refs, filtered_refs,
                   start_mark, next_mark, target_segments, grouped_speeches>>

\* save_analysis_result
SaveAnalysis ==
    /\ pc = "analyse"
    /\ api_calls = Len(grouped_speeches)
    /\ outputs' = <<"analysis">>
    /\ pc' = "saved"
    /\ UNCHANGED <<pipeVars, idVars, configVars, extVars>>
    /\ UNCHANGED <<load_status, all_voiceprints, error, vad_segments, all_items>>

NextAnalysis ==
    \/ FindSectionStep
    \/ LoadBoardConfig
    \/ ExtractAndGroup
    \/ AnalyseSpeech
    \/ SaveAnalysis

SpecAnalysis == InitAnalysis /\ [][NextAnalysis]_vars

\* ------------------------------------- identify_speaker as a single call
\* the inputs of one call: a library of at most MaxLib entries, the similarity
\* of the segment embedding to each entry, and a threshold
InitIdentify ==
    /\ pc = "call"
    /\ \E n \in 0..MaxLib :
        /\ id_voiceprints = SubSeq(AllNames, 1, n)
        /\ segment_emb \in [1..n -> {Sim(v) : v \in SimVals} \cup {Fail}]
    /\ id_threshold \in Thresholds
    /\ id_result = None
    /\ ExtIdle
    /\ voiceprints = <<>>
    /\ speaker_seqs = <<>>
    /\ candidates = <<>>
    /\ time_marks = <<>>
    /\ load_status = None
    /\ all_voiceprints = <<>>
    /\ error = None
    /\ vad_segments = <<>>
    /\ all_items = <<>>
    /\ outputs = <<>>
    /\ similarity_threshold = DEFAULT_SIMILARITY_THRESHOLD
    /\ min_speaker_duration = DEFAULT_MIN_SPEAKER_DURATION
    /\ processed_segments = <<>>
    /\ merged_segments = <<>>
    /\ modified_segments = <<>>
    /\ filtered_segments = <<>>

IdentifyCall ==
    /\ pc = "call"
    /\ id_result' = identify_speaker(segment_emb, id_voiceprints, id_threshold)
    /\ pc' = "returned"
    /\ UNCHANGED <<segment_emb, id_voiceprints, id_threshold>>
    /\ UNCHANGED <<pipeVars, extVars, configVars, runVars>>

NextIdentify == IdentifyCall

SpecIdentify == InitIdentify /\ [][NextIdentify]_vars

\* ===================================================================
\* Properties
\* ===================================================================

\* no two adjacent segments of the list have the same speaker
NoAdjacentSame(segs) ==
    \A i \in 1..(Len(segs) - 1) : segs[i].speaker # segs[i + 1].speaker

\* some two adjacent segments of the list have the same speaker
HasAdjacentSame(segs) ==
    \E i \in 1..(Len(segs) - 1) : segs[i].speaker = segs[i + 1].speaker

\* a segment as merge_consecutive_same_speaker emits it
MSeg(speaker, display, start_ms, end_ms, text) ==
    [speaker |-> speaker, display_speaker |-> display,
     start_ms |-> start_ms, end_ms |-> end_ms,
     start |-> minsec(start_ms), end |-> minsec(end_ms),
     text |-> text, duration_ms |-> end_ms - start_ms]

\* an identified segment as the per-segment loop appends it
PSeg(speaker, display, start_ms, end_ms, text) ==
    [speaker |-> speaker, display_speaker |-> display,
     start_ms |-> start_ms, end_ms |-> end_ms,
     text |-> text, duration_ms |-> end_ms - start_ms]

\* the merge has run on processed_segments
Merged == pc \in {"merged", "filtered"}

\* C1: every identified segment has a non-null speaker, and the list returned by
\* merge_consecutive_same_speaker has no two adjacent segments with the same
\* speaker.
C1_MergeNoAdjacentSame ==
    Merged =>
        /\ \A i \in 1..Len(processed_segments) : processed_segments[i].speaker # None
        /\ NoAdjacentSame(merged_segments)

\* the merge ran on a list with adjacent equal speakers and returned several runs
C1_Witness ==
    /\ pc = "merged"
    /\ HasAdjacentSame(processed_segments)
    /\ Len(merged_segments) >= 2

\* C2: merging the merge's output again returns that output, field for field and
\* in length and order: merge(merge(X)) = merge(X).
C2_MergeIdempotent ==
    Merged => merge_consecutive_same_speaker(merged_segments) = merged_segments

\* the first merge combined segments and kept several runs with text
C2_Witness ==
    /\ pc = "merged"
    /\ Len(merged_segments) >= 2
    /\ Len(merged_segments) < Len(processed_segments)
    /\ \E k \in 1..Len(merged_segments) : merged_segments[k].text # <<>>

\* first indices of the maximal runs of equal speakers of segs
RunStarts(segs) ==
    {i \in 1..Len(segs) : i = 1 \/ segs[i].speaker # segs[i - 1].speaker}

\* first index of the k-th run
RunStart(segs, k) ==
    CHOOSE i \in RunStarts(segs) : Cardinality({j \in RunStarts(segs) : j <= i}) = k

\* last index of the k-th run
RunEnd(segs, k) ==
    IF k = Cardinality(RunStarts(segs)) THEN Len(segs) ELSE RunStart(segs, k + 1) - 1

RECURSIVE ConcatTexts(_, _, _)
\* text of segs[a] .. segs[b] in order
ConcatTexts(segs, a, b) ==
    IF a > b THEN <<>> ELSE segs[a].text \o ConcatTexts(segs, a + 1, b)

\* the k-th output is the k-th maximal run of the input
IsRunOf(out, segs, k) ==
    LET a == RunStart(segs, k)
        b == RunEnd(segs, k)
    IN  /\ out.speaker = segs[a].speaker
        /\ out.display_speaker = segs[a].display_speaker
        /\ out.start_ms = segs[a].start_ms
        /\ out.end_ms = segs[b].end_ms
        /\ out.text = ConcatTexts(segs, a, b)
        /\ out.duration_ms = out.end_ms - out.start_ms
        /\ a = b => /\ out.duration_ms = segs[a].duration_ms
                    /\ out.text = segs[a].text

\* C3: the merge emits one segment per maximal run of equal speakers, in order,
\* from the run's first start_ms to its last end_ms, with the run's texts
\* concatenated in order, duration_ms = end_ms - start_ms and the first member's
\* display_speaker; [A@0-1000, A@1000-2000, B@2000-2500] gives
\* [A@0-2000, B@2000-2500].
C3_MergeRuns ==
    /\ Merged =>
        /\ Len(merged_segments) = Cardinality(RunStarts(processed_segments))
        /\ \A k \in 1..Len(merged_segments) :
              IsRunOf(merged_segments[k], processed_segments, k)
    /\ merge_consecutive_same_speaker(
           <<PSeg("A", "seat1", 0, 1000, <<1>>), PSeg("A", "seat1", 1000, 2000, <<2>>),
             PSeg("B", "B", 2000, 2500, <<3>>)>>)
         = <<MSeg("A", "seat1", 0, 2000, <<1, 2>>), MSeg("B", "B", 2000, 2500, <<3>>)>>

\* a run of two segments with text, then a single-member run
C3_Witness ==
    /\ pc = "merged"
    /\ Len(processed_segments) = 3
    /\ Len(merged_segments) = 2
    /\ merged_segments[1].text = <<1, 2>>
    /\ merged_segments[1].end_ms = processed_segments[2].end_ms
    /\ merged_segments[2].start_ms = processed_segments[3].start_ms
    /\ merged_segments[2].text = processed_segments[3].text

\* the corrector has run (or was bypassed)
Filtered == pc = "filtered"

\* the relabel pass of the corrector ran
RelabelRan == Filtered /\ min_speaker_duration > 0 /\ RelabelRuns(merged_segments)

\* C4: whatever the threshold, the final merged list has no two adjacent segments
\* with the same speaker when the corrector's input had none.
C4_FilterNoAdjacentSame ==
    (Filtered /\ NoAdjacentSame(merged_segments)) => NoAdjacentSame(filtered_segments)

\* a relabel made two neighbours equal and the second loop merged them
C4_Witness ==
    /\ RelabelRan
    /\ NoAdjacentSame(merged_segments)
    /\ HasAdjacentSame(modified_segments)
    /\ Len(filtered_segments) >= 2

\* ------------------------------------------------------- identify_speaker
Returned == pc = "returned"

\* indices of the library entries whose similarity was computed
Computed == {i \in 1..Len(segment_emb) : segment_emb[i] # Fail}

\* the maximum similarity over the computed entries
MaxSimilarity ==
    CHOOSE v \in {segment_emb[i][1] : i \in Computed} :
        \A i \in Computed : segment_emb[i][1] <= v

\* the entries that reach the maximum
ArgMax == {i \in Computed : segment_emb[i][1] = MaxSimilarity}

\* the first of them in the library's iteration order
FirstArgMax == CHOOSE i \in ArgMax : \A j \in ArgMax : i <= j

\* C5: identify_speaker returns a library speaker of maximum similarity when the
\* maximum is >= the threshold (equality included), and UNKNOWN when the maximum
\* is below the threshold or the library is empty.
C5_IdentifyByThreshold ==
    Returned =>
        IF Len(id_voiceprints) = 0 THEN id_result = UNKNOWN
        ELSE IF Computed = {} THEN TRUE
        ELSE IF MaxSimilarity >= id_threshold
             THEN \E i \in ArgMax : id_result = id_voiceprints[i]
             ELSE id_result = UNKNOWN

\* the names of the library of the call
LibraryNames == {id_voiceprints[i] : i \in 1..Len(id_voiceprints)}

ThresholdMs == min_speaker_duration * 1000

\* some segment was relabeled by the pass
SomeRelabeled ==
    \E j \in 1..Len(merged_segments) :
        modified_segments[j].speaker # merged_segments[j].speaker

\* C7 as stated: a segment whose duration_ms is >= the value the corrector was
\* called with, both read as milliseconds, keeps its speaker.
C7_Original ==
    RelabelRan =>
        \A i \in 1..Len(merged_segments) :
            merged_segments[i].duration_ms >= min_speaker_duration
                => modified_segments[i].speaker = merged_segments[i].speaker

\* C7 amended: a segment whose duration_ms is >= 1000 times the value the
\* corrector was called with (a number of seconds) keeps its speaker.
C7_LongKeepsSpeaker ==
    RelabelRan =>
        \A i \in 1..Len(merged_segments) :
            merged_segments[i].duration_ms >= ThresholdMs
                => modified_segments[i].speaker = merged_segments[i].speaker

\* a named segment exactly as long as the threshold, with a predecessor of
\* another speaker, keeps its speaker in a pass that relabels another segment
C7_Witness ==
    /\ RelabelRan
    /\ SomeRelabeled
    /\ \E i \in 2..Len(merged_segments) :
        /\ merged_segments[i].duration_ms = ThresholdMs
        /\ merged_segments[i].speaker # UNKNOWN
        /\ modified_segments[i].speaker = merged_segments[i].speaker

\* C8: every UNKNOWN segment of the corrector's input is still UNKNOWN in the
\* relabeled list, whatever its duration and its neighbours; without a relabel
\* pass the input is returned as it is.
C8_UnknownNeverRelabeled ==
    /\ RelabelRan =>
        /\ Len(modified_segments) = Len(merged_segments)
        /\ \A i \in 1..Len(merged_segments) :
              merged_segments[i].speaker = UNKNOWN
                  => modified_segments[i].speaker = UNKNOWN
    /\ (Filtered /\ ~RelabelRan) => filtered_segments = merged_segments

\* a short UNKNOWN segment between two named segments of one speaker stays
\* UNKNOWN in a pass that relabels another segment
C8_Witness ==
    /\ RelabelRan
    /\ SomeRelabeled
    /\ \E i \in 2..(Len(merged_segments) - 1) :
        /\ merged_segments[i].speaker = UNKNOWN
        /\ merged_segments[i].duration_ms < ThresholdMs
        /\ merged_segments[i - 1].speaker = merged_segments[i + 1].speaker
        /\ modified_segments[i].speaker = UNKNOWN

\* the corrector's input is a named segment that is not short followed by a short
\* trailing UNKNOWN segment
TrailingShortUnknown ==
    /\ Filtered
    /\ min_speaker_duration > 0
    /\ Len(merged_segments) = 2
    /\ merged_segments[1].speaker # UNKNOWN
    /\ merged_segments[1].duration_ms >= ThresholdMs
    /\ merged_segments[2].speaker = UNKNOWN
    /\ merged_segments[2].duration_ms < ThresholdMs

\* C9 as stated: a short trailing UNKNOWN segment is relabeled to its predecessor
\* and the corrector returns the single segment of the two.
C9_Original ==
    TrailingShortUnknown =>
        /\ modified_segments[2].speaker = merged_segments[1].speaker
        /\ Len(filtered_segments) = 1
        /\ filtered_segments[1].speaker = merged_segments[1].speaker
        /\ filtered_segments[1].start_ms = merged_segments[1].start_ms
        /\ filtered_segments[1].end_ms = merged_segments[2].end_ms

\* C9 amended: a short trailing UNKNOWN segment is not absorbed: it stays UNKNOWN
\* and the corrector returns the two segments as they were;
\* [A@0-5000, UNKNOWN@5000-5200] is returned unchanged.
C9_TrailingUnknownKept ==
    /\ TrailingShortUnknown =>
        /\ modified_segments[2].speaker = UNKNOWN
        /\ filtered_segments = merged_segments
    /\ LET input == <<MSeg("A", "seat1", 0, 5000, <<1>>),
                      MSeg(UNKNOWN, UNKNOWN, 5000, 5200, <<2>>)>>
       IN  filter_short_speaker_segments(input, DEFAULT_MIN_SPEAKER_DURATION) = input

\* the corrector ran on such a two-segment list whose segments both have text
C9_Witness ==
    /\ TrailingShortUnknown
    /\ merged_segments[1].text # <<>>
    /\ merged_segments[2].text # <<>>
    /\ Len(filtered_segments) = 2

\* segment i of the corrector's input is named, has a predecessor and a successor
\* of one speaker, and is shorter than limit
ShortBetweenSame(i, limit) ==
    /\ i \in 2..(Len(merged_segments) - 1)
    /\ merged_segments[i].speaker # UNKNOWN
    /\ merged_segments[i].duration_ms < limit
    /\ merged_segments[i - 1].speaker = merged_segments[i + 1].speaker

\* neither neighbour of segment i was relabeled
NeighboursKept(i) ==
    /\ modified_segments[i - 1].speaker = merged_segments[i - 1].speaker
    /\ modified_segments[i + 1].speaker = merged_segments[i + 1].speaker

\* C10 as stated: such a segment is relabeled to its neighbours' speaker S and,
\* the neighbours not being relabeled, the result has one segment of S from the
\* predecessor's start_ms to the successor's end_ms; with min_duration_ms = 3000,
\* [S long, T of 800 ms, S long] gives the single segment of S.
C10_Original ==
    RelabelRan =>
        /\ \A i \in 1..Len(merged_segments) :
              ShortBetweenSame(i, ThresholdMs) =>
                /\ modified_segments[i].speaker = merged_segments[i - 1].speaker
                /\ NeighboursKept(i) =>
                      \E k \in 1..Len(filtered_segments) :
                        /\ filtered_segments[k].speaker = merged_segments[i - 1].speaker
                        /\ filtered_segments[k].start_ms = merged_segments[i - 1].start_ms
                        /\ filtered_segments[k].end_ms = merged_segments[i + 1].end_ms
        /\ (/\ min_speaker_duration = 3000
            /\ Len(merged_segments) = 3
            /\ ShortBetweenSame(2, 3000)
            /\ merged_segments[1].speaker # UNKNOWN
            /\ merged_segments[1].duration_ms >= 3000
            /\ merged_segments[3].duration_ms >= 3000)
           => /\ Len(filtered_segments) = 1
              /\ filtered_segments[1].speaker = merged_segments[1].speaker
              /\ filtered_segments[1].start_ms = merged_segments[1].start_ms
              /\ filtered_segments[1].end_ms = merged_segments[3].end_ms

\* C10 amended: a named segment shorter than 1000 times the value the corrector
\* was called with (a number of seconds), between two segments of one speaker S,
\* is relabeled to S; the neighbours not being relabeled, the result has a
\* segment of S that covers the predecessor's start_ms to the successor's end_ms,
\* and is that single segment when the input is these three;
\* [A@0-5000, B@5000-5800, A@5800-9000] called with 3 gives [A@0-9000].
C10_ShortBetweenSameRelabeled ==
    /\ RelabelRan =>
        \A i \in 1..Len(merged_segments) :
            ShortBetweenSame(i, ThresholdMs) =>
              /\ modified_segments[i].speaker = merged_segments[i - 1].speaker
              /\ NeighboursKept(i) =>
                  /\ \E k \in 1..Len(filtered_segments) :
                        /\ filtered_segments[k].speaker = merged_segments[i - 1].speaker
                        /\ filtered_segments[k].start_ms <= merged_segments[i - 1].start_ms
                        /\ filtered_segments[k].end_ms >= merged_segments[i + 1].end_ms
                  /\ Len(merged_segments) = 3 =>
                        /\ Len(filtered_segments) = 1
                        /\ filtered_segments[1].speaker = merged_segments[1].speaker
                        /\ filtered_segments[1].start_ms = merged_segments[1].start_ms
                        /\ filtered_segments[1].end_ms = merged_segments[3].end_ms
                        /\ filtered_segments[1].duration_ms =
                              merged_segments[3].end_ms - merged_segments[1].start_ms
    /\ filter_short_speaker_segments(
           <<MSeg("A", "seat1", 0, 5000, <<1>>), MSeg("B", "B", 5000, 5800, <<2>>),
             MSeg("A", "seat1", 5800, 9000, <<3>>)>>, DEFAULT_MIN_SPEAKER_DURATION)
         = <<MSeg("A", "seat1", 0, 9000, <<1, 2, 3>>)>>

\* a short named segment between two long segments of another speaker was
\* relabeled and the three came out as one segment
C10_Witness ==
    /\ RelabelRan
    /\ Len(merged_segments) = 3
    /\ ShortBetweenSame(2, ThresholdMs)
    /\ NeighboursKept(2)
    /\ merged_segments[1].speaker # UNKNOWN
    /\ merged_segments[2].speaker # merged_segments[1].speaker
    /\ modified_segments[2].speaker = merged_segments[1].speaker
    /\ Len(filtered_segments) = 1

\* segment i of the corrector's input is named and shorter than the threshold
ShortNamed(i) ==
    /\ merged_segments[i].speaker # UNKNOWN
    /\ merged_segments[i].duration_ms < ThresholdMs

\* segment i of the corrector's input has a predecessor, a successor
HasPrev(i) == i > 1
HasNext(i) == i < Len(merged_segments)

\* C11 as stated: a short named segment takes its predecessor's speaker only when
\* it has no successor or the successor has that speaker, its successor's only
\* when it has no predecessor, and keeps its own speaker when both neighbours
\* exist and differ.
C11_Original ==
    RelabelRan =>
        \A i \in 1..Len(merged_segments) :
            ShortNamed(i) =>
              /\ (HasPrev(i) /\ HasNext(i)
                    /\ merged_segments[i - 1].speaker # merged_segments[i + 1].speaker)
                 => modified_segments[i].speaker = merged_segments[i].speaker
              /\ (HasPrev(i) /\ ~HasNext(i))
                 => modified_segments[i].speaker = merged_segments[i - 1].speaker
              /\ (~HasPrev(i) /\ HasNext(i))
                 => modified_segments[i].speaker = merged_segments[i + 1].speaker

\* C11 amended: a short named segment that has a predecessor takes the
\* predecessor's speaker, with or without a successor and whatever the
\* successor's speaker; it takes its successor's speaker only when it has no
\* predecessor; a segment that is UNKNOWN or not short keeps its speaker.
C11_PredecessorFirst ==
    RelabelRan =>
        \A i \in 1..Len(merged_segments) :
            /\ (ShortNamed(i) /\ HasPrev(i))
               => modified_segments[i].speaker = merged_segments[i - 1].speaker
            /\ (ShortNamed(i) /\ ~HasPrev(i) /\ HasNext(i))
               => modified_segments[i].speaker = merged_segments[i + 1].speaker
            /\ ~ShortNamed(i)
               => modified_segments[i].speaker = merged_segments[i].speaker

\* a short named segment between two segments of different speakers took the
\* predecessor's speaker
C11_Witness ==
    /\ RelabelRan
    /\ \E i \in 2..(Len(merged_segments) - 1) :
        /\ ShortNamed(i)
        /\ merged_segments[i - 1].speaker # merged_segments[i + 1].speaker
        /\ merged_segments[i + 1].speaker # merged_segments[i].speaker
        /\ modified_segments[i].speaker = merged_segments[i - 1].speaker
        /\ modified_segments[i].speaker # merged_segments[i].speaker

\* the speaker of segment i in the corrector's input, None outside the list
InputSpeaker(i) ==
    IF i \in 1..Len(merged_segments) THEN merged_segments[i].speaker ELSE None

\* the speaker the pass gives a segment, from the input speakers of its
\* predecessor, itself and its successor, and its input duration
PassDecision(prev, own, next, duration_ms, limit) ==
    IF duration_ms < limit /\ own # UNKNOWN
    THEN IF prev # None THEN prev ELSE IF next # None THEN next ELSE own
    ELSE own

\* C12: the new speaker of every segment is a function of the input speakers of
\* segments i-1, i, i+1 and the input duration of segment i, also when segment
\* i-1 was relabeled earlier in the pass.
C12_DecisionsReadInput ==
    RelabelRan =>
        \A i \in 1..Len(merged_segments) :
            modified_segments[i].speaker =
                PassDecision(InputSpeaker(i - 1), InputSpeaker(i), InputSpeaker(i + 1),
                             merged_segments[i].duration_ms, ThresholdMs)

\* segment i-1 was relabeled and segment i then took the speaker segment i-1 had
\* in the input, not its new one
C12_Witness ==
    /\ RelabelRan
    /\ \E i \in 2..Len(merged_segments) :
        /\ modified_segments[i - 1].speaker # merged_segments[i - 1].speaker
        /\ modified_segments[i].speaker # merged_segments[i].speaker
        /\ modified_segments[i].speaker = merged_segments[i - 1].speaker
        /\ modified_segments[i].speaker # modified_segments[i - 1].speaker

\* C13: the relabeled list is as long as the input and each of its segments is
\* the input segment but for the speaker: display_speaker, text, start_ms,
\* end_ms and duration_ms are unchanged.
C13_RelabelOnlySpeaker ==
    RelabelRan =>
        /\ Len(modified_segments) = Len(merged_segments)
        /\ \A i \in 1..Len(merged_segments) :
            /\ modified_segments[i].display_speaker = merged_segments[i].display_speaker
            /\ modified_segments[i].text = merged_segments[i].text
            /\ modified_segments[i].start_ms = merged_segments[i].start_ms
            /\ modified_segments[i].end_ms = merged_segments[i].end_ms
            /\ modified_segments[i].duration_ms = merged_segments[i].duration_ms
            /\ [modified_segments[i] EXCEPT !.speaker = merged_segments[i].speaker]
                   = merged_segments[i]

\* a segment with text was relabeled to a speaker whose seat label is not the
\* display_speaker the segment keeps
C13_Witness ==
    /\ RelabelRan
    /\ \E i \in 1..Len(merged_segments) :
        /\ modified_segments[i].speaker # merged_segments[i].speaker
        /\ modified_segments[i].text # <<>>
        /\ modified_segments[i].display_speaker
               # DisplaySpeaker(modified_segments[i].speaker, speaker_seqs)

\* C14: the list the corrector returns is merge_consecutive_same_speaker of the
\* relabeled list: one segment per maximal run of equal speakers, with the first
\* member's display_speaker, end_ms and text extended over the run and
\* duration_ms = end_ms - start_ms.
C14_ReMergeIsMerge ==
    RelabelRan =>
        /\ filtered_segments = merge_consecutive_same_speaker(modified_segments)
        /\ Len(filtered_segments) = Cardinality(RunStarts(modified_segments))
        /\ \A k \in 1..Len(filtered_segments) :
              IsRunOf(filtered_segments[k], modified_segments, k)

\* the second loop merged relabeled segments with text into a run, next to
\* another run
C14_Witness ==
    /\ RelabelRan
    /\ SomeRelabeled
    /\ Len(filtered_segments) = 2
    /\ Len(modified_segments) = 3
    /\ \E k \in 1..2 : Len(filtered_segments[k].text) >= 2

\* the output files are written
Done == pc = "done"

\* the positions of the timeline holding item
PositionsOf(item) == {k \in 1..Len(all_items) : all_items[k] = item}

\* C15: the timeline holds every final merged segment and every time mark
\* exactly once, nothing else, and its start_ms values never decrease from one
\* item to the next.
C15_TimelineCompleteSorted ==
    Done =>
        /\ Len(all_items) = Len(filtered_segments) + Len(time_marks)
        /\ \A i \in 1..Len(filtered_segments) :
              Cardinality(PositionsOf([start_ms |-> filtered_segments[i].start_ms,
                                       type |-> "speech",
                                       data |-> filtered_segments[i]])) = 1
        /\ \A j \in 1..Len(time_marks) :
              Cardinality(PositionsOf([start_ms |-> time_marks[j].start_ms,
                                       type |-> "time_mark",
                                       data |-> time_marks[j]])) = 1
        /\ \A k \in 1..(Len(all_items) - 1) :
              all_items[k].start_ms <= all_items[k + 1].start_ms

\* two segments and two marks are interleaved: a mark stands between the segments
C15_Witness ==
    /\ Done
    /\ Len(filtered_segments) = 2
    /\ Len(time_marks) = 2
    /\ \E k \in 2..(Len(all_items) - 1) :
        /\ all_items[k - 1].type = "speech"
        /\ all_items[k].type = "time_mark"
        /\ all_items[k + 1].type = "speech"
        /\ all_items[k].start_ms < all_items[k + 1].start_ms

\* the position of a timeline item in the list it came from
InputPosition(item) ==
    IF item.type = "speech"
    THEN CHOOSE i \in 1..Len(filtered_segments) : filtered_segments[i] = item.data
    ELSE CHOOSE j \in 1..Len(time_marks) : time_marks[j] = item.data

\* C16: of two timeline items with the same start_ms, a segment comes before a
\* mark, and two items of the same kind are in their input order.
C16_TimelineTies ==
    Done =>
        \A k, l \in 1..Len(all_items) :
            (k < l /\ all_items[k].start_ms = all_items[l].start_ms) =>
                /\ ~(all_items[k].type = "time_mark" /\ all_items[l].type = "speech")
                /\ all_items[k].type = all_items[l].type
                   => InputPosition(all_items[k]) < InputPosition(all_items[l])

\* a segment and two marks have the same start_ms: the segment, then the marks
\* in their input order
C16_Witness ==
    /\ Done
    /\ \E k \in 1..(Len(all_items) - 2) :
        /\ all_items[k].start_ms = all_items[k + 2].start_ms
        /\ all_items[k].start_ms > 0
        /\ all_items[k].type = "speech"
        /\ all_items[k + 1] = [start_ms |-> time_marks[1].start_ms,
                               type |-> "time_mark", data |-> time_marks[1]]
        /\ all_items[k + 2] = [start_ms |-> time_marks[2].start_ms,
                               type |-> "time_mark", data |-> time_marks[2]]

\* the per-segment loop ran over an empty raw segment list
NoRawSegment == processed_segments = <<>>

\* C17 as stated: with no raw segment the merged list and the timeline are empty.
C17_Original ==
    (Done /\ NoRawSegment) =>
        /\ merged_segments = <<>>
        /\ filtered_segments = <<>>
        /\ all_items = <<>>

\* C17 amended: with no raw segment the merged list is empty and the timeline
\* holds the time marks, all of them and in their input order; it is empty only
\* when there is no time mark.
C17_EmptyRunKeepsMarks ==
    (Done /\ NoRawSegment) =>
        /\ merged_segments = <<>>
        /\ filtered_segments = <<>>
        /\ all_items = [j \in 1..Len(time_marks) |->
                           [start_ms |-> time_marks[j].start_ms,
                            type |-> "time_mark", data |-> time_marks[j]]]
        /\ (all_items = <<>>) <=> (time_marks = <<>>)

\* a run without raw segments wrote a timeline of two marks
C17_Witness ==
    /\ Done
    /\ NoRawSegment
    /\ Len(time_marks) = 2
    /\ Len(all_items) = 2

\* the roster members that are shown by their seat label
SeatedSpeakers ==
    {n \in (DOMAIN speaker_seqs) \ {JUDGE, UNKNOWN} :
        speaker_seqs[n] \notin {"", NO_SEQ}}

\* C18: an identified segment whose speaker is a roster member other than the
\* judge and UNKNOWN with a seat label that is neither empty nor NO_SEQ has that
\* seat label as display_speaker; every other segment has display_speaker =
\* speaker.
C18_SeatLabelSubstitution ==
    \A i \in 1..Len(processed_segments) :
        LET segment == processed_segments[i]
        IN  /\ segment.speaker \in SeatedSpeakers
               => segment.display_speaker = speaker_seqs[segment.speaker]
            /\ segment.speaker \notin SeatedSpeakers
               => segment.display_speaker = segment.speaker

\* a seated player is shown by the seat label, while the judge and UNKNOWN, both
\* on the roster with a seat label, are shown by name
C18_Witness ==
    /\ JUDGE \in DOMAIN speaker_seqs /\ speaker_seqs[JUDGE] = "seat9"
    /\ UNKNOWN \in DOMAIN speaker_seqs
    /\ \E i, j, k \in 1..Len(processed_segments) :
        /\ processed_segments[i].speaker = "A"
        /\ processed_segments[i].display_speaker = "seat1"
        /\ processed_segments[j].speaker = JUDGE
        /\ processed_segments[j].display_speaker = JUDGE
        /\ processed_segments[k].speaker = UNKNOWN
        /\ processed_segments[k].display_speaker = UNKNOWN

\* C19: whatever fails for whichever segments, the loop appends one identified
\* segment per raw segment, in order and with the raw start_ms and end_ms; a
\* segment without embedding is UNKNOWN, a segment without transcription has an
\* empty text, every other label is what identify_speaker gives for the segment
\* and every other text is what was transcribed; the run goes on without error.
C19_LoopDegrades ==
    /\ pc = "loop"
    /\ error = None
    /\ Len(processed_segments) = Len(vad_segments)
    /\ \A i \in 1..Len(vad_segments) :
        LET raw == vad_segments[i]
            out == processed_segments[i]
        IN  /\ out.start_ms = raw.start_ms
            /\ out.end_ms = raw.end_ms
            /\ ~raw.emb_ok => out.speaker = UNKNOWN
            /\ raw.emb_ok =>
                 out.speaker = identify_speaker(raw.sims, voiceprints, similarity_threshold)
            /\ ~raw.asr_ok => out.text = <<>>
            /\ raw.asr_ok => out.text = raw.heard

\* the embedding of the first segment and the transcription of the second failed;
\* the first has its text, the second its speaker, the third both
C19_Witness ==
    /\ Len(vad_segments) = 3
    /\ ~vad_segments[1].emb_ok /\ vad_segments[1].asr_ok
    /\ processed_segments[1].speaker = UNKNOWN
    /\ processed_segments[1].text = <<1>>
    /\ vad_segments[2].emb_ok /\ ~vad_segments[2].asr_ok
    /\ processed_segments[2].speaker = "A"
    /\ processed_segments[2].text = <<>>
    /\ vad_segments[3].emb_ok /\ vad_segments[3].asr_ok
    /\ processed_segments[3].speaker = JUDGE
    /\ processed_segments[3].text = <<3>>

\* the library file was missing, could not be read or held no entry
LibraryUnavailable == load_status \in {"missing", "unreadable", "empty"}

\* C20: when the library file is missing, unreadable or empty the run is aborted
\* with an error with no segment identified, merged or written: the lists of the
\* later stages and the output files stay empty.
C20_EmptyLibraryAborts ==
    LibraryUnavailable =>
        /\ pc = "aborted"
        /\ error = "RuntimeError"
        /\ voiceprints = <<>>
        /\ processed_segments = <<>>
        /\ merged_segments = <<>>
        /\ filtered_segments = <<>>
        /\ all_items = <<>>
        /\ outputs = <<>>

\* the library could not be read and the run stopped at its load
C20_Witness ==
    /\ load_status = "unreadable"
    /\ all_voiceprints = <<>>
    /\ pc = "aborted"
    /\ error = "RuntimeError"

\* the candidate filter has run, or raised, on a loaded library
VoiceprintsFiltered ==
    /\ load_status = "ok"
    /\ pc \notin {"start", "load", "loaded"}

\* no name of the roster, the judge included, has an entry in the library
NoRosterNameInLibrary ==
    /\ all_voiceprints # <<>>
    /\ Names(candidates) \cap Names(all_voiceprints) = {}

\* C21: when no roster name, the judge included, has an entry in a non-empty
\* library, the run does not fail: the voiceprints used are the whole library.
C21_FallbackToFullLibrary ==
    (VoiceprintsFiltered /\ NoRosterNameInLibrary) =>
        /\ pc # "aborted"
        /\ error = None
        /\ voiceprints = all_voiceprints

\* parse_config_file has handled the entry raw_mark
ParseEnded == pc \in {"parsed", "aborted"} /\ raw_mark # NoRawMark

\* the positions of the colons of a time marker
Colons(chars) == {k \in 1..Len(chars) : chars[k] = ":"}

\* the part of a time marker between positions a and b, both excluded
Between(chars, a, b) == SubSeq(chars, a + 1, b - 1)

\* what the time marker of raw_mark denotes: <<ms>>, or <<>> when it has none of
\* the forms 'm:s', 'h:m:s' and frame count
Denoted ==
    LET time == raw_mark.time
        chars == time.chars
        n == Len(chars) + 1
    IN  IF time.type = "num" THEN <<(time.value * 1000) \div 30>>
        ELSE IF Cardinality(Colons(chars)) = 0 /\ IsInt(chars)
        THEN <<(IntOf(chars) * 1000) \div 30>>
        ELSE IF Cardinality(Colons(chars)) = 1
        THEN LET c == CHOOSE k \in Colons(chars) : TRUE
                 m == Between(chars, 0, c)
                 sec == Between(chars, c, n)
             IN  IF IsInt(m) /\ IsInt(sec)
                 THEN <<(60 * IntOf(m) + IntOf(sec)) * 1000>>
                 ELSE <<>>
        ELSE IF Cardinality(Colons(chars)) = 2
        THEN LET c1 == CHOOSE k \in Colons(chars) : \A j \in Colons(chars) : k <= j
                 c2 == CHOOSE k \in Colons(chars) : \A j \in Colons(chars) : k >= j
                 h == Between(chars, 0, c1)
                 m == Between(chars, c1, c2)
                 sec == Between(chars, c2, n)
             IN  IF IsInt(h) /\ IsInt(m) /\ IsInt(sec)
                 THEN <<(3600 * IntOf(h) + 60 * IntOf(m) + IntOf(sec)) * 1000>>
                 ELSE <<>>
        ELSE <<>>

\* C22: a labelled time marker 'm:s' gives (60*m + s)*1000, 'h:m:s' gives
\* (3600*h + 60*m + s)*1000 and a frame count n, as a string or as a number,
\* gives n*1000/30 truncated; a marker of no such form gives no time mark; no
\* marker gives an error.
C22_TimeMarkerParsed ==
    (ParseEnded /\ raw_mark.label # "") =>
        /\ error = None
        /\ pc = "parsed"
        /\ Denoted # <<>> =>
             time_marks = <<[start_ms |-> Denoted[1], label |-> raw_mark.label]>>
        /\ Denoted = <<>> => time_marks = <<>>

\* C23: the merge and the corrector leave the lists they are given and every
\* dict in them as they were: after both, the dicts of the identified list and
\* of the first merged list hold what they held before the calls.
C23_InputsUntouched ==
    /\ pc \in {"merged", "filtered"} =>
          /\ Len(processed_refs) = Len(processed_segments)
          /\ Deref(heap, processed_refs) = processed_segments
    /\ pc = "filtered" =>
          /\ Len(merged_refs) = Len(merged_segments)
          /\ Deref(heap, merged_refs) = merged_segments

\* the corrector relabeled and merged: it returned fewer dicts than it was given,
\* none of them a dict of its input
C23_Witness ==
    /\ pc = "filtered"
    /\ min_speaker_duration > 0
    /\ Len(merged_refs) = 3
    /\ Len(filtered_refs) = 2
    /\ Names(filtered_refs) \cap Names(merged_refs) = {}
    /\ \E k \in 1..2 :
          heap[filtered_refs[k]].duration_ms
              > heap[merged_refs[k]].duration_ms

\* the marks of the log whose label contains the section anchor
AnchorIndexes ==
    {i \in 1..Len(time_marks) :
        \E k \in 1..Len(time_marks[i].label) :
            /\ k + 1 <= Len(time_marks[i].label)
            /\ time_marks[i].label[k] = "day1"
            /\ time_marks[i].label[k + 1] = "sheriff"}

\* the first of them
AnchorIndex == CHOOSE i \in AnchorIndexes : \A j \in AnchorIndexes : i <= j

\* segment seg of the log lies in the section of the anchor
InAnchorSection(seg) ==
    /\ time_marks[AnchorIndex].start_ms <= seg.start_ms
    /\ AnchorIndex < Len(time_marks)
       => seg.start_ms < time_marks[AnchorIndex + 1].start_ms

\* the analysis step has searched the anchor
SectionSearched == pc \in {"load_board", "extract", "analyse", "saved", "aborted"}

\* C24: in the analysis step, without a time mark whose label contains the
\* section anchor the run is aborted with an error, no segment grouped and no
\* call made to the language model; with one, the segments analysed are the
\* merged segments of the log with anchor.start_ms <= start_ms <
\* next_mark.start_ms, without upper bound when the anchor is the last mark.
C24_SectionByAnchor ==
    /\ (SectionSearched /\ AnchorIndexes = {}) =>
          /\ pc = "aborted"
          /\ error = "ValueError"
          /\ target_segments = <<>>
          /\ grouped_speeches = <<>>
          /\ api_calls = 0
    /\ (pc \in {"analyse", "saved"} /\ AnchorIndexes # {}) =>
          target_segments = SelectSeq(filtered_segments, InAnchorSection)
    /\ pc \in {"analyse", "saved"} => AnchorIndexes # {}

\* the anchor is followed by a mark: the segment that starts at the anchor is
\* analysed, the one that starts at the next mark is not
C24_Witness ==
    /\ pc = "saved"
    /\ api_calls = 1
    /\ Len(time_marks) = 2
    /\ AnchorIndex = 1
    /\ Len(filtered_segments) = 2
    /\ filtered_segments[1].start_ms = time_marks[1].start_ms
    /\ filtered_segments[2].start_ms = time_marks[2].start_ms
    /\ target_segments = <<filtered_segments[1]>>

\* the corrector was given a long segment followed by two short named segments
Cascading ==
    /\ RelabelRan
    /\ Len(merged_segments) = 3
    /\ merged_segments[1].duration_ms >= ThresholdMs
    /\ ShortNamed(2)
    /\ ShortNamed(3)

\* a named segment of the corrector's output is shorter than the threshold and
\* has a neighbour
ShortNamedLeft ==
    /\ Len(filtered_segments) > 1
    /\ \E k \in 1..Len(filtered_segments) :
        /\ filtered_segments[k].speaker # UNKNOWN
        /\ filtered_segments[k].duration_ms < ThresholdMs

\* C25: the corrector makes one relabel pass and one merge and does not look at
\* its result again, so its output need not be a fixpoint: for a long segment
\* followed by two short named ones the output still has a short named segment
\* with a neighbour, and the corrector applied to the output changes it.
C25_NotAFixpoint ==
    Cascading =>
        /\ ShortNamedLeft
        /\ filter_short_speaker_segments(filtered_segments, min_speaker_duration)
               # filtered_segments

\* [A long, B short, judge short] gave [A, B short]; a second application gives [A]
C25_Witness ==
    /\ Cascading
    /\ merged_segments[1].speaker = "A"
    /\ merged_segments[2].speaker = "B"
    /\ merged_segments[3].speaker = JUDGE
    /\ Len(filtered_segments) = 2
    /\ filtered_segments[1].speaker = "A"
    /\ filtered_segments[2].speaker = "B"
    /\ Len(filter_short_speaker_segments(filtered_segments, min_speaker_duration)) = 1

\* the texts of a list, one after the other
AllText(segs) == ConcatTexts(segs, 1, Len(segs))

\* out says all that in says, over the same stretch of time, in no more segments
Covers(out, in) ==
    /\ AllText(out) = AllText(in)
    /\ Len(out) <= Len(in)
    /\ (in = <<>>) <=> (out = <<>>)
    /\ in # <<>> =>
         /\ out[1].start_ms = in[1].start_ms
         /\ Last(out).end_ms = Last(in).end_ms

\* C26: the merge and the corrector lose no speech: the texts of the output, one
\* after the other, are the texts of the input, one after the other; the output
\* starts where the input starts and ends where it ends; the output has no more
\* segments than the input.
C26_NoSpeechLost ==
    /\ Merged => Covers(merged_segments, processed_segments)
    /\ (Filtered /\ min_speaker_duration > 0)
          => Covers(filtered_segments, merged_segments)

\* three segments with text became two in the merge and one in the corrector
C26_Witness ==
    /\ RelabelRan
    /\ Len(processed_segments) = 3
    /\ Len(merged_segments) = 2
    /\ Len(filtered_segments) = 1
    /\ filtered_segments[1].text = <<1, 2, 3>>

\* every segment of the list is shown by the display label of its own speaker
DisplayOfOwnSpeaker(segs) ==
    \A k \in 1..Len(segs) :
        segs[k].display_speaker = DisplaySpeaker(segs[k].speaker, speaker_seqs)

\* C27: in the list the corrector returns, the display_speaker of every segment
\* is the display label of the segment's own speaker, the seat label or else the
\* name, given that this held for every segment of its input.
C27_DisplayFollowsSpeaker ==
    (Filtered /\ min_speaker_duration > 0 /\ DisplayOfOwnSpeaker(merged_segments))
        => DisplayOfOwnSpeaker(filtered_segments)

====
